---- MODULE Spec2Model ----
(***************************************************************************)
(* UniCT-Exam-Extractor: the extraction and import pipeline of             *)
(* src/exam_services.py and src/parser.py.                                 *)
(*                                                                         *)
(* A Python str is modelled as the sequence of its characters, each        *)
(* character a one-character string; None is the empty tuple where a date  *)
(* is expected and NoneCell where a table cell is expected.  A call's      *)
(* result is a record [exc, val]: exc is "" when the call returned val and *)
(* the name of the exception when it raised.                               *)
(***************************************************************************)
EXTENDS Integers, Sequences, FiniteSets, TLC

\* ------------------------------------------------------------------ bounds
\* The longest day_str drawn, counted in pieces of DayPieces.
MaxDayPieces == 3
\* The most body rows of a table drawn.
MaxRows == 2
\* The longest list of exams handed to save_exams.
MaxExams == 3
\* The longest list of exams of one save_exams call among several.
MaxBatch == 2

\* ------------------------------------------------- characters, str methods
NL == "\n"
Digits == <<"0", "1", "2", "3", "4", "5", "6", "7", "8", "9">>
UpperLetters == <<"A", "B", "C", "D", "E", "F", "G", "H", "I", "J", "K", "L", "M", "N", "O", "P", "Q", "R", "S", "T", "U", "V", "W", "X", "Y", "Z">>
LowerLetters == <<"a", "b", "c", "d", "e", "f", "g", "h", "i", "j", "k", "l", "m", "n", "o", "p", "q", "r", "s", "t", "u", "v", "w", "x", "y", "z">>
\* The characters of the model in ascending code point order: Python compares
\* and sorts str values by code point.
CodePoints == <<NL, " ", "(", ")", ",", "-">> \o Digits \o UpperLetters \o LowerLetters

Range(s) == {s[i] : i \in 1..Len(s)}
IndexOf(c, s) == CHOOSE i \in 1..Len(s) : s[i] = c
SetMin(S) == CHOOSE x \in S : \A y \in S : x <= y
SetMax(S) == CHOOSE x \in S : \A y \in S : y <= x

\* The character classes of the re module for the model's characters.
DigitClass == Range(Digits)
LetterClass == Range(UpperLetters) \cup Range(LowerLetters)
SpaceClass == {" ", NL}

DigitValue(c) == IndexOf(c, Digits) - 1
ord(c) == IndexOf(c, CodePoints)

UpperChar(c) == IF c \in Range(LowerLetters) THEN UpperLetters[IndexOf(c, LowerLetters)] ELSE c
upper(s) == [i \in 1..Len(s) |-> UpperChar(s[i])]
replace_newline(s) == [i \in 1..Len(s) |-> IF s[i] = NL THEN " " ELSE s[i]]
strip(s) ==
  LET keep == {i \in 1..Len(s) : s[i] \notin SpaceClass}
  IN IF keep = {} THEN <<>> ELSE SubSeq(s, SetMin(keep), SetMax(keep))
\* sub in s, for two str values.
contains(sub, s) == \E i \in 0..(Len(s) - Len(sub)) : SubSeq(s, i + 1, i + Len(sub)) = sub
\* s[:n]
prefix(s, n) == SubSeq(s, 1, IF Len(s) < n THEN Len(s) ELSE n)

\* a < b for two str values.
RECURSIVE str_less(_, _)
str_less(a, b) ==
  IF b = <<>> THEN FALSE
  ELSE IF a = <<>> THEN TRUE
  ELSE IF a[1] = b[1] THEN str_less(Tail(a), Tail(b))
  ELSE ord(a[1]) < ord(b[1])

\* The number of consecutive characters of class C in s from index i on: what a
\* greedy C+ or C* consumes there.
span(s, i, C) ==
  LET stop == {j \in i..Len(s) : s[j] \notin C}
  IN IF i > Len(s) THEN 0 ELSE IF stop = {} THEN Len(s) - i + 1 ELSE SetMin(stop) - i

\* re.findall(r"\d+", s): the maximal digit runs of s, left to right.
RECURSIVE findall_digits(_)
findall_digits(s) ==
  IF s = <<>> THEN <<>>
  ELSE IF s[1] \notin DigitClass THEN findall_digits(Tail(s))
  ELSE LET n == span(s, 1, DigitClass)
       IN <<SubSeq(s, 1, n)>> \o findall_digits(SubSeq(s, n + 1, Len(s)))

\* ------------------------------------------------------ int and datetime.date
\* The largest C int: date() converts its arguments to C int and raises
\* OverflowError for a Python int beyond it.
INT_MAX == 2147483647

\* int(run) for a digit run; overflow marks a value above INT_MAX (a Python int
\* has no bound, and the only use of the value is as an argument of date()).
RECURSIVE int_acc(_, _)
int_acc(run, acc) ==
  IF run = <<>> THEN [overflow |-> FALSE, n |-> acc]
  ELSE LET d == DigitValue(Head(run))
       IN IF acc > (INT_MAX - d) \div 10
          THEN [overflow |-> TRUE, n |-> 0]
          ELSE int_acc(Tail(run), acc * 10 + d)
int(run) == int_acc(run, 0)

is_leap(year) == year % 4 = 0 /\ (year % 100 # 0 \/ year % 400 = 0)
days_in_month(year, month) ==
  IF month = 2 THEN (IF is_leap(year) THEN 29 ELSE 28)
  ELSE IF month \in {4, 6, 9, 11} THEN 30 ELSE 31

None == <<>>
\* date(year, month, day) for arguments within C int.
date(year, month, day) ==
  IF year \in 1..9999 /\ month \in 1..12 /\ day >= 1 /\ day <= days_in_month(year, month)
  THEN [exc |-> "", val |-> <<year, month, day>>]
  ELSE [exc |-> "ValueError", val |-> None]

\* str(n).zfill(width)
RECURSIVE zfill(_, _)
zfill(n, width) ==
  IF width = 0 THEN <<>> ELSE Append(zfill(n \div 10, width - 1), Digits[(n % 10) + 1])
\* date.isoformat(): YYYY-MM-DD, zero padded.
isoformat(d) == zfill(d[1], 4) \o <<"-">> \o zfill(d[2], 2) \o <<"-">> \o zfill(d[3], 2)

\* ------------------------------------------------------- ItalianDateParser
MONTHS ==
  { <<<<"G", "E", "N">>, 1>>, <<<<"F", "E", "B">>, 2>>, <<<<"M", "A", "R">>, 3>>, <<<<"A", "P", "R">>, 4>>, <<<<"M", "A", "G">>, 5>>,
    <<<<"G", "I", "U">>, 6>>, <<<<"L", "U", "G">>, 7>>, <<<<"A", "G", "O">>, 8>>, <<<<"S", "E", "T">>, 9>>, <<<<"O", "T", "T">>, 10>>,
    <<<<"N", "O", "V">>, 11>>, <<<<"D", "I", "C">>, 12>>,
    <<<<"G", "E", "N", "N", "A", "I", "O">>, 1>>, <<<<"F", "E", "B", "B", "R", "A", "I", "O">>, 2>>, <<<<"M", "A", "R", "Z", "O">>, 3>>, <<<<"A", "P", "R", "I", "L", "E">>, 4>>,
    <<<<"M", "A", "G", "G", "I", "O">>, 5>>, <<<<"G", "I", "U", "G", "N", "O">>, 6>>, <<<<"L", "U", "G", "L", "I", "O">>, 7>>, <<<<"A", "G", "O", "S", "T", "O">>, 8>>,
    <<<<"S", "E", "T", "T", "E", "M", "B", "R", "E">>, 9>>, <<<<"O", "T", "T", "O", "B", "R", "E">>, 10>>, <<<<"N", "O", "V", "E", "M", "B", "R", "E">>, 11>>, <<<<"D", "I", "C", "E", "M", "B", "R", "E">>, 12>> }
\* MONTHS.get(key): 0 stands for None.
MONTHS_get(key) ==
  IF \E e \in MONTHS : e[1] = key THEN (CHOOSE e \in MONTHS : e[1] = key)[2] ELSE 0

\* The loop of parse_day_list over the digit runs: only ValueError is caught.
RECURSIVE day_list_loop(_, _, _, _)
day_list_loop(runs, month, year, result) ==
  IF runs = <<>> THEN [exc |-> "", val |-> result]
  ELSE LET day == int(Head(runs))
       IN IF day.overflow
          THEN [exc |-> "OverflowError", val |-> <<>>]
          ELSE LET d == date(year, month, day.n)
               IN day_list_loop(Tail(runs), month, year,
                                IF d.exc = "" THEN Append(result, d.val) ELSE result)
parse_day_list(day_str, month, year) ==
  day_list_loop(findall_digits(day_str), month, year, <<>>)

\* A match of (\d{1,2})\s+([a-zA-Z]+)\s+(\d{4}) starting at index i.  Every
\* quantifier takes what its class allows (the character after a maximal run is
\* not of the class, so giving characters back never lets the next item match).
full_date_at(s, i) ==
  LET nd == IF span(s, i, DigitClass) > 2 THEN 2 ELSE span(s, i, DigitClass)
      w1 == span(s, i + nd, SpaceClass)
      nl == span(s, i + nd + w1, LetterClass)
      w2 == span(s, i + nd + w1 + nl, SpaceClass)
      y == i + nd + w1 + nl + w2
      ok == nd >= 1 /\ w1 >= 1 /\ nl >= 1 /\ w2 >= 1 /\ span(s, y, DigitClass) >= 4
  IN IF ok
     THEN [ok |-> TRUE,
           g1 |-> SubSeq(s, i, i + nd - 1),
           g2 |-> SubSeq(s, i + nd + w1, i + nd + w1 + nl - 1),
           g3 |-> SubSeq(s, y, y + 3)]
     ELSE [ok |-> FALSE, g1 |-> <<>>, g2 |-> <<>>, g3 |-> <<>>]
\* re.search: the match at the leftmost index that has one.
search_full_date(s) ==
  LET at == {i \in 1..Len(s) : full_date_at(s, i).ok}
  IN IF at = {} THEN [ok |-> FALSE, g1 |-> <<>>, g2 |-> <<>>, g3 |-> <<>>]
     ELSE full_date_at(s, SetMin(at))
\* parse_full_date looking the month token up as written, without upper().
parse_full_date_as_written(raw_text) ==
  LET match == search_full_date(raw_text)
      month == MONTHS_get(prefix(match.g2, 3))
  IN IF ~match.ok THEN None
     ELSE IF month = 0 THEN None
     ELSE date(int(match.g3).n, month, int(match.g1).n).val
parse_full_date(raw_text) ==
  LET match == search_full_date(raw_text)
      month == MONTHS_get(prefix(upper(match.g2), 3))
  IN IF ~match.ok THEN None
     ELSE IF month = 0 THEN None
     ELSE date(int(match.g3).n, month, int(match.g1).n).val

\* ------------------------------------------------------------ ExamPdfParser
\* A document is what pdfplumber hands over: a sequence of pages, each the
\* sequence of tables of page.extract_tables(), each table a sequence of rows,
\* each row a sequence of cells, each cell a str or None.
NoneCell == <<"None">>
\* str(cell)
str(cell) == IF cell = NoneCell THEN <<"N", "o", "n", "e">> ELSE cell
\* not cell
falsy(cell) == cell = NoneCell \/ cell = <<>>

ExamRecord(materia, data_esame, tipo) ==
  [materia |-> materia, data_esame |-> data_esame, tipo |-> tipo]

\* A match of ([A-Za-z]+)\s*(\d{4}) starting at index i (each quantifier takes
\* what its class allows, as in full_date_at).
month_header_at(s, i) ==
  LET nl == span(s, i, LetterClass)
      w == span(s, i + nl, SpaceClass)
      y == i + nl + w
      ok == nl >= 1 /\ span(s, y, DigitClass) >= 4
  IN IF ok
     THEN [ok |-> TRUE, g1 |-> SubSeq(s, i, i + nl - 1), g2 |-> SubSeq(s, y, y + 3)]
     ELSE [ok |-> FALSE, g1 |-> <<>>, g2 |-> <<>>]
search_month_header(s) ==
  LET at == {i \in 1..Len(s) : month_header_at(s, i).ok}
  IN IF at = {} THEN [ok |-> FALSE, g1 |-> <<>>, g2 |-> <<>>]
     ELSE month_header_at(s, SetMin(at))

\* header = [str(cell).replace("\n", " ").strip() for cell in table[0]]
regular_header(table) == [i \in 1..Len(table[1]) |-> strip(replace_newline(str(table[1][i])))]
\* The test that makes parse_regular skip a table.
regular_skips(table) ==
  \/ table = <<>>
  \/ table[1] = <<>>
  \/ Len(regular_header(table)) < 2
  \/ contains(<<"I", "N", "S", "E", "G", "N", "A", "M", "E", "N", "T", "O">>, upper(regular_header(table)[1]))

\* month_columns, in insertion order: <<position, month, year>> for each header
\* cell after the first that names a month (positions count from 1, so Python's
\* idx is position - 1).
RECURSIVE month_columns_from(_, _)
month_columns_from(header, p) ==
  IF p > Len(header) THEN <<>>
  ELSE LET match == search_month_header(header[p])
           month == MONTHS_get(prefix(upper(match.g1), 3))
       IN (IF match.ok /\ month # 0 THEN << <<p, month, int(match.g2).n>> >> ELSE <<>>)
          \o month_columns_from(header, p + 1)
month_columns(header) == month_columns_from(header, 2)

\* materia = str(row[0]).replace("\n", " ").strip()
materia_of(row) == strip(replace_newline(str(row[1])))
regular_skips_row(row) ==
  \/ row = <<>>
  \/ falsy(row[1])
  \/ materia_of(row) = <<>>
  \/ contains(<<"A", "U", "L", "A">>, upper(materia_of(row)))
  \/ contains(<<"P", "R", "I", "M", "O", " ", "A", "N", "N", "O">>, upper(materia_of(row)))
  \/ contains(<<"S", "E", "C", "O", "N", "D", "O", " ", "A", "N", "N", "O">>, upper(materia_of(row)))

\* The loops of parse_regular, innermost first.  exams is the list built so far;
\* an exception of parse_day_list leaves every loop, and the function.
RECURSIVE regular_columns(_, _, _, _)
regular_columns(row, columns, k, exams) ==
  IF k > Len(columns) THEN [exc |-> "", val |-> exams]
  ELSE LET p == columns[k][1]
       IN IF p > Len(row) \/ falsy(row[p])
          THEN regular_columns(row, columns, k + 1, exams)
          ELSE LET days == parse_day_list(replace_newline(str(row[p])), columns[k][2], columns[k][3])
               IN IF days.exc # ""
                  THEN [exc |-> days.exc, val |-> <<>>]
                  ELSE regular_columns(row, columns, k + 1,
                         exams \o [i \in 1..Len(days.val) |->
                                     ExamRecord(materia_of(row), days.val[i], <<"O", "r", "d", "i", "n", "a", "r", "i", "o">>)])
RECURSIVE regular_rows(_, _, _, _)
regular_rows(table, columns, r, exams) ==
  IF r > Len(table) THEN [exc |-> "", val |-> exams]
  ELSE IF regular_skips_row(table[r]) THEN regular_rows(table, columns, r + 1, exams)
  ELSE LET done == regular_columns(table[r], columns, 1, exams)
       IN IF done.exc # "" THEN done ELSE regular_rows(table, columns, r + 1, done.val)
RECURSIVE regular_tables(_, _, _)
regular_tables(tables, t, exams) ==
  IF t > Len(tables) THEN [exc |-> "", val |-> exams]
  ELSE IF regular_skips(tables[t]) THEN regular_tables(tables, t + 1, exams)
  ELSE LET done == regular_rows(tables[t], month_columns(regular_header(tables[t])), 2, exams)
       IN IF done.exc # "" THEN done ELSE regular_tables(tables, t + 1, done.val)
RECURSIVE regular_pages(_, _, _)
regular_pages(pages, n, exams) ==
  IF n > Len(pages) THEN [exc |-> "", val |-> exams]
  ELSE LET done == regular_tables(pages[n], 1, exams)
       IN IF done.exc # "" THEN done ELSE regular_pages(pages, n + 1, done.val)
parse_regular(pdf) == regular_pages(pdf, 1, <<>>)

\* header = [str(cell).replace("\n", " ").strip().upper() for cell in table[0]]
out_of_course_header(table) ==
  [i \in 1..Len(table[1]) |-> upper(strip(replace_newline(str(table[1][i]))))]
\* The test that makes parse_out_of_course skip a table: "INSEGNAMENTO" not in
\* header is membership in the list of header cells.
out_of_course_skips(table) ==
  \/ table = <<>>
  \/ table[1] = <<>>
  \/ <<"I", "N", "S", "E", "G", "N", "A", "M", "E", "N", "T", "O">> \notin Range(out_of_course_header(table))
out_of_course_skips_row(row) ==
  \/ row = <<>>
  \/ falsy(row[1])
  \/ materia_of(row) = <<>>
  \/ contains(<<"A", "N", "N", "O">>, upper(materia_of(row)))
  \/ contains(<<"C", "O", "R", "S", "O", " ", "D", "I", " ", "L", "A", "U", "R", "E", "A">>, upper(materia_of(row)))

RECURSIVE out_of_course_cells(_, _, _)
out_of_course_cells(row, p, exams) ==
  IF p > Len(row) THEN exams
  ELSE IF falsy(row[p]) THEN out_of_course_cells(row, p + 1, exams)
  ELSE LET parsed == parse_full_date(strip(replace_newline(str(row[p]))))
       IN out_of_course_cells(row, p + 1,
            IF parsed = None THEN exams
            ELSE Append(exams, ExamRecord(materia_of(row), parsed, <<"F", "u", "o", "r", "i", " ", "C", "o", "r", "s", "o">>)))
RECURSIVE out_of_course_rows(_, _, _)
out_of_course_rows(table, r, exams) ==
  IF r > Len(table) THEN exams
  ELSE IF out_of_course_skips_row(table[r]) THEN out_of_course_rows(table, r + 1, exams)
  ELSE out_of_course_rows(table, r + 1, out_of_course_cells(table[r], 2, exams))
RECURSIVE out_of_course_tables(_, _, _)
out_of_course_tables(tables, t, exams) ==
  IF t > Len(tables) THEN exams
  ELSE IF out_of_course_skips(tables[t]) THEN out_of_course_tables(tables, t + 1, exams)
  ELSE out_of_course_tables(tables, t + 1, out_of_course_rows(tables[t], 2, exams))
RECURSIVE out_of_course_pages(_, _, _)
out_of_course_pages(pages, n, exams) ==
  IF n > Len(pages) THEN exams
  ELSE out_of_course_pages(pages, n + 1, out_of_course_tables(pages[n], 1, exams))
parse_out_of_course(pdf) == [exc |-> "", val |-> out_of_course_pages(pdf, 1, <<>>)]

\* --------------------------------------------------------------- PdfFetcher
\* A destination file is "absent" or holds a content: "local copy" (a copy that
\* was there before), the URL whose response.content a download wrote, or
\* "truncated" (what a write that failed half way leaves).
\* The attempt of ensure_pdf has two environment outcomes: net, the outcome of
\* requests.get and raise_for_status ("200", or the requests.RequestException
\* raised: "HTTPError", "ConnectionError"), and disk, the outcome of
\* write_bytes ("ok", "open fails": OSError before the file is touched,
\* "write fails": OSError after the file was opened for writing, and truncated).
NetOutcomes == {"200", "HTTPError", "ConnectionError"}
DiskOutcomes == {"ok", "open fails", "write fails"}

ensure_pdf(files, source_url, destination, allow_download, net, disk) ==
  IF allow_download
  THEN IF net = "200"
       THEN IF disk = "ok"
            THEN [exc |-> "", val |-> destination,
                  fs |-> [files EXCEPT ![destination] = source_url]]
            ELSE \* write_bytes raises OSError, which except RequestException lets through
                 [exc |-> "OSError", val |-> "",
                  fs |-> IF disk = "write fails"
                         THEN [files EXCEPT ![destination] = "truncated"] ELSE files]
       ELSE IF files[destination] # "absent"
            THEN [exc |-> "", val |-> destination, fs |-> files]
            ELSE [exc |-> "RuntimeError", val |-> "", fs |-> files]
  ELSE IF files[destination] = "absent"
       THEN [exc |-> "FileNotFoundError", val |-> "", fs |-> files]
       ELSE [exc |-> "", val |-> destination, fs |-> files]

\* ----------------------------------------------------------- ExamRepository
\* The database is [exists, rows]: whether the table appelli exists, and its
\* rows (materia, data_esame, tipo) in rowid order.  A table that exists
\* carries the constraint UNIQUE(materia, data_esame, tipo) of its declaration.

\* The items between the parentheses of the CREATE TABLE statement of
\* init_schema, each with whether a comma follows it in the source text.
CREATE_TABLE_ITEMS ==
  << [item |-> "id INTEGER PRIMARY KEY AUTOINCREMENT", comma |-> TRUE],
     [item |-> "materia TEXT NOT NULL", comma |-> TRUE],
     [item |-> "data_esame TEXT NOT NULL", comma |-> TRUE],
     [item |-> "tipo TEXT NOT NULL", comma |-> FALSE],
     [item |-> "UNIQUE(materia, data_esame, tipo)", comma |-> FALSE] >>
\* SQLite parses a column list followed by table constraints only when a comma
\* separates every item from the next; otherwise preparing the statement fails
\* (near "(": syntax error), whether or not the table exists.
sql_parses(items) == \A i \in 1..(Len(items) - 1) : items[i].comma

init_schema(database, clear_existing) ==
  IF ~sql_parses(CREATE_TABLE_ITEMS)
  THEN [exc |-> "OperationalError", db |-> database]
  ELSE [exc |-> "",
        db |-> [exists |-> TRUE,
                rows |-> IF clear_existing \/ ~database.exists THEN <<>> ELSE database.rows]]

\* (exam.materia, exam.data_iso, exam.tipo)
row_of(exam) == <<exam.materia, isoformat(exam.data_esame), exam.tipo>>
\* The rows compared by their natural order (materia, data_esame, tipo).
key_less_natural(a, b) ==
  \/ str_less(a[1], b[1])
  \/ a[1] = b[1] /\ str_less(a[2], b[2])
  \/ a[1] = b[1] /\ a[2] = b[2] /\ str_less(a[3], b[3])
\* key(a) < key(b) for key=lambda row: (row[1], row[0], row[2]).
key_less(a, b) ==
  \/ str_less(a[2], b[2])
  \/ a[2] = b[2] /\ str_less(a[1], b[1])
  \/ a[2] = b[2] /\ a[1] = b[1] /\ str_less(a[3], b[3])
RECURSIVE sorted(_)
\* sorted(S, key=...) for a set of rows: no two rows of a set have equal keys.
sorted(S) ==
  IF S = {} THEN <<>>
  ELSE LET first == CHOOSE x \in S : \A y \in S \ {x} : key_less(x, y)
       IN <<first>> \o sorted(S \ {first})
RECURSIVE insert_or_ignore(_, _)
\* executemany of INSERT OR IGNORE: a row that conflicts with a stored row under
\* the UNIQUE constraint is skipped.
insert_or_ignore(rows, params) ==
  IF params = <<>> THEN rows
  ELSE insert_or_ignore(
         IF Head(params) \in Range(rows) THEN rows ELSE Append(rows, Head(params)),
         Tail(params))

\* unique is the sequence handed to executemany, inserted the number of rows
\* the call added.
save_exams(database, exams) ==
  IF exams = <<>>
  THEN [exc |-> "", val |-> 0, unique |-> <<>>, inserted |-> 0, db |-> database]
  ELSE LET unique == sorted({row_of(exams[i]) : i \in 1..Len(exams)})
       IN IF ~database.exists
          THEN \* no such table: appelli
               [exc |-> "OperationalError", val |-> 0, unique |-> unique, inserted |-> 0,
                db |-> database]
          ELSE LET rows == insert_or_ignore(database.rows, unique)
               IN [exc |-> "", val |-> Len(unique), unique |-> unique,
                   inserted |-> Len(rows) - Len(database.rows),
                   db |-> [database EXCEPT !.rows = rows]]

\* ------------------------------------------------------- ExamImportPipeline
REGOLARI_PDF == "esami_regolari.pdf"
FUORI_CORSO_PDF == "esami_fuori_corso.pdf"
REGOLARI_URL == "https://web.dmi.unict.it/sites/default/files/ESAMI%202025-26_v6.pdf"
FUORI_CORSO_URL == "https://web.dmi.unict.it/sites/default/files/ESAMI%20Fuori%20Corso%202025-26.pdf"

\* What pdfplumber.open yields for the file at path: the document source is
\* outside the program, so each content stands for one fixed document, and a
\* truncated file is no PDF.
pdf_at(path, content) ==
  IF content = "truncated" THEN [exc |-> "PDFSyntaxError", pages |-> <<>>]
  ELSE IF path = REGOLARI_PDF
  THEN [exc |-> "",
        pages |-> << << << << <<"M", "a", "t", "e", "r", "i", "a">>, <<"F", "e", "b", " ", "2", "0", "2", "4">>, <<"o", "t", "t", "o", "b", "r", "e", "\n", "2", "0", "2", "5">> >>,
                           IF content = "local copy"
                           THEN << <<"F", "i", "s", "i", "c", "a">>, <<"2", "1">>, <<"1">> >>
                           ELSE << <<"F", "i", "s", "i", "c", "a">>, <<"2", "1", ",", " ", "2", "1", "4", "7", "4", "8", "3", "6", "4", "8">>, <<"1">> >> >> >> >>]
  ELSE [exc |-> "",
        pages |-> << << << << <<"I", "n", "s", "e", "g", "n", "a", "m", "e", "n", "t", "o">>, <<"1", "a", " ", "d", "a", "t", "a">>, <<"2", "a", " ", "d", "a", "t", "a">> >>,
                           IF content = "local copy"
                           THEN << <<"F", "i", "s", "i", "c", "a", " ", "I">>, <<"2", "1", " ", "f", "e", "b", " ", "2", "0", "2", "5">>, NoneCell >>
                           ELSE << <<"F", "i", "s", "i", "c", "a", " ", "I">>, <<"2", "1", " ", "f", "e", "b", " ", "2", "0", "2", "5">>, <<"1", " ", "o", "t", "t", "o", "b", "r", "e", " ", "2", "0", "2", "5">> >> >> >> >>]

\* run from "Elaborazione esami regolari..." on, both files being in place:
\* regolari and fuori_corso are what pdfplumber.open yields for them,
\* regular_exams and out_of_course_exams what the two parsers make of the pages
\* (an exception of any of the four ends run before the store is touched).
run_parse_and_save(regolari, regular_exams, fuori_corso, out_of_course_exams, database, reset_db) ==
  LET failed(exc) ==
        [exc |-> exc, val |-> 0, inserted |-> 0, schema |-> "not called", db |-> database]
      store(schema) ==
        IF schema.exc # ""
        THEN [exc |-> schema.exc, val |-> 0, inserted |-> 0, schema |-> schema.exc,
              db |-> schema.db]
        ELSE LET saved(done) == [exc |-> done.exc, val |-> done.val,
                                 inserted |-> done.inserted, schema |-> "", db |-> done.db]
             IN saved(save_exams(schema.db, regular_exams.val \o out_of_course_exams.val))
  IN IF regolari.exc # "" THEN failed(regolari.exc)
     ELSE IF regular_exams.exc # "" THEN failed(regular_exams.exc)
     ELSE IF fuori_corso.exc # "" THEN failed(fuori_corso.exc)
     ELSE IF out_of_course_exams.exc # "" THEN failed(out_of_course_exams.exc)
     ELSE store(init_schema(database, reset_db))

\* ------------------------------------------------------------------- state
VARIABLES
  input,  \* the arguments the calls are made with
  out,    \* per function, the result of its call
  fs,     \* the destination files: path -> content
  db,     \* the SQLite database behind ExamRepository
  pc      \* the position of ExamImportPipeline.run, "idle" outside a run

vars == <<input, out, fs, db, pc>>

NotCalled == [exc |-> "not called", val |-> <<>>]

\* ------------------------------------- specification of the date functions
RECURSIVE Concats(_, _)
\* The concatenations of at most n pieces.
Concats(pieces, n) ==
  IF n = 0 THEN {<<>>}
  ELSE LET shorter == Concats(pieces, n - 1)
       IN shorter \cup {s \o p : s \in shorter, p \in pieces}

DayPieces ==
  { <<"1">>, <<"2", "1">>, <<"0">>, <<"3", "2">>, <<"2", "9">>, <<",", " ">>, <<" ", "e", " ">>, <<"2", "1", "4", "7", "4", "8", "3", "6", "4", "7">>, <<"2", "1", "4", "7", "4", "8", "3", "6", "4", "8">> }
DayTexts == Concats(DayPieces, MaxDayPieces)

PhrasePrefixes == { <<>>, <<"x">>, <<"5", " ", "x", "y", "z", " ", "2", "0", "2", "5", " ">>, <<"7", " ", "g", "e", "n", " ", "2", "0", "2", "6", " ", "e", " ">> }
PhraseDays == { <<"2", "9">>, <<"3", "0">>, <<"3", "1">>, <<"1">>, <<"1", "3", "0">>, <<"0">> }
PhraseGaps == { <<" ">>, <<" ", " ">>, <<>> }
PhraseMonths == { <<"o", "t", "t", "o", "b", "r", "e">>, <<"O", "T", "T">>, <<"O", "t", "t">>, <<"s", "e", "t", "t">>, <<"F", "E", "B", "B", "R", "A", "I", "O">>, <<"x", "y", "z">>, <<"o", "t">> }
PhraseYears == { <<"2", "0", "2", "5">>, <<"2", "0", "2", "4">>, <<"2", "0", "2", "5", "6">>, <<"2", "0", "2">> }
FullTexts ==
  { p \o d \o g \o m \o <<" ">> \o y :
      p \in PhrasePrefixes, d \in PhraseDays, g \in PhraseGaps,
      m \in PhraseMonths, y \in PhraseYears }
  \cup { <<"i", "n", "v", "a", "l", "i", "d", " ", "t", "e", "x", "t">>, <<"3", "0", " ", "o", "t", "t", "o", "b", "r", "e", "2", "0", "2", "5">>, <<"o", "t", "t", "o", "b", "r", "e", " ", "2", "0", "2", "5">> }

DateMonths == {2, 10, 13}
DateYears == {2024, 2025}

InitDate ==
  /\ input \in [text : DayTexts, month : DateMonths, year : DateYears]
               \cup [text : FullTexts, month : {10}, year : {2025}]
  /\ out = [parse_day_list |-> NotCalled, parse_full_date |-> NotCalled]
  /\ fs = <<>>
  /\ db = <<>>
  /\ pc = "idle"

CallParseDayList ==
  /\ out.parse_day_list = NotCalled
  /\ out' = [out EXCEPT !.parse_day_list = parse_day_list(input.text, input.month, input.year)]
  /\ UNCHANGED <<input, fs, db, pc>>

CallParseFullDate ==
  /\ out.parse_full_date = NotCalled
  /\ out' = [out EXCEPT !.parse_full_date = [exc |-> "", val |-> parse_full_date(input.text)]]
  /\ UNCHANGED <<input, fs, db, pc>>

NextDate == CallParseDayList \/ CallParseFullDate
SpecDate == InitDate /\ [][NextDate]_vars

\* ------------------------------------------- specification of the parsers
RECURSIVE SeqsUpTo(_, _)
\* The sequences of at most n elements of S.
SeqsUpTo(S, n) ==
  IF n = 0 THEN {<<>>}
  ELSE LET shorter == SeqsUpTo(S, n - 1)
       IN shorter \cup {Append(s, x) : s \in shorter, x \in S}

Headers ==
  { << <<" ", "i", "n", "s", "e", "g", "n", "a", "m", "e", "n", "t", "o", "\n">>, <<"1", "a", " ", "d", "a", "t", "a">>, <<"2", "a", " ", "d", "a", "t", "a">> >>,
    << <<"M", "a", "t", "e", "r", "i", "a">>, <<"F", "e", "b", " ", "2", "0", "2", "4">>, <<"o", "t", "t", "o", "b", "r", "e", "\n", "2", "0", "2", "5">> >>,
    << <<"C", "o", "r", "s", "o">>, <<"X", "y", "z", " ", "2", "0", "2", "5">>, <<"s", "e", "s", "s", "i", "o", "n", "e", " ", "G", "E", "N", "2", "0", "2", "6">> >>,
    << <<"D", "a", "t", "a">>, <<"I", "n", "s", "e", "g", "n", "a", "m", "e", "n", "t", "o">>, <<"G", "e", "n", " ", "2", "0", "2", "6">> >>,
    << <<"I", "n", "s", "e", "g", "n", "a", "m", "e", "n", "t", "o", " ", "(", "C", "F", "U", ")">>, <<"F", "e", "b", " ", "2", "0", "2", "4">>, <<"G", "e", "n", " ", "2", "0", "2", "6">> >>,
    << <<"M", "a", "t", "e", "r", "i", "a">> >>,
    << >> }
Subjects ==
  { <<"A", "n", "a", "l", "i", "s", "i">>, <<"F", "i", "s", "i", "c", "a", "\n", "I", " ">>, <<"A", "u", "l", "a", " ", "1", "0", "1">>, <<"S", "e", "c", "o", "n", "d", "o", " ", "a", "n", "n", "o">>, <<"I", "I", " ", "a", "n", "n", "o">>,
    <<"C", "o", "r", "s", "o", " ", "d", "i", " ", "L", "a", "u", "r", "e", "a", " ", "i", "n", " ", "I", "n", "f", "o", "r", "m", "a", "t", "i", "c", "a">>, NoneCell }
RowCells ==
  { << <<"1", ",", " ", "2", "1">>, <<"3", "0", " ", "o", "t", "t", "o", "b", "r", "e", " ", "2", "0", "2", "5">> >>,
    << <<"1", "2", " ", "g", "e", "n", " ", "2", "0", "2", "6">>, NoneCell >>,
    << <<"2", "1", "4", "7", "4", "8", "3", "6", "4", "8">>, <<"2", " ", "e", " ", "2", "2">> >>,
    << <<"3", "1", " ", "f", "e", "b", " ", "2", "0", "2", "5">> >>,
    << <<>>, <<"2", "9", "\n", "3", "0">> >> }
Rows == {<<s>> \o c : s \in Subjects, c \in RowCells}
\* The rows that follow the first body row of a table, and the rows of the
\* documents that hold two tables.
LaterRows ==
  { << <<"A", "n", "a", "l", "i", "s", "i">>, <<"1", ",", " ", "2", "1">>, <<"3", "0", " ", "o", "t", "t", "o", "b", "r", "e", " ", "2", "0", "2", "5">> >>,
    << <<"F", "i", "s", "i", "c", "a", "\n", "I", " ">>, <<"2", "1", "4", "7", "4", "8", "3", "6", "4", "8">>, <<"1", "2", " ", "g", "e", "n", " ", "2", "0", "2", "6">> >>,
    << <<"A", "u", "l", "a", " ", "1", "0", "1">>, <<"1", "2", " ", "g", "e", "n", " ", "2", "0", "2", "6">>, <<"2", " ", "e", " ", "2", "2">> >> }
Tables ==
  { <<h>> \o first \o later :
      h \in Headers, first \in SeqsUpTo(Rows, 1), later \in SeqsUpTo(LaterRows, MaxRows - 1) }
PairTables == {<<>>} \cup {<<h, r>> : h \in Headers, r \in LaterRows}
Documents ==
  {<< <<t>> >> : t \in Tables}
  \cup {<< <<a, b>> >> : a \in PairTables, b \in PairTables}
  \cup {<< <<a>>, <<>>, <<b>> >> : a \in PairTables, b \in PairTables}

InitParse ==
  /\ input \in [pdf : Documents]
  /\ out = [parse_regular |-> NotCalled, parse_out_of_course |-> NotCalled]
  /\ fs = <<>>
  /\ db = <<>>
  /\ pc = "idle"

CallParseRegular ==
  /\ out.parse_regular = NotCalled
  /\ out' = [out EXCEPT !.parse_regular = parse_regular(input.pdf)]
  /\ UNCHANGED <<input, fs, db, pc>>

CallParseOutOfCourse ==
  /\ out.parse_out_of_course = NotCalled
  /\ out' = [out EXCEPT !.parse_out_of_course = parse_out_of_course(input.pdf)]
  /\ UNCHANGED <<input, fs, db, pc>>

NextParse == CallParseRegular \/ CallParseOutOfCourse
SpecParse == InitParse /\ [][NextParse]_vars

\* ------------------------------------------- specification of the fetcher
Paths == {REGOLARI_PDF, FUORI_CORSO_PDF}
Urls == {REGOLARI_URL, FUORI_CORSO_URL}
InitialFiles == [Paths -> {"absent", "local copy"}]

InitFetch ==
  /\ input = <<>>
  /\ out = [ensure_pdf |-> NotCalled]
  /\ fs \in InitialFiles
  /\ db = <<>>
  /\ pc = "idle"

\* input keeps the arguments, the environment's outcomes and the files the call
\* started from.
CallEnsurePdf ==
  \E source_url \in Urls, destination \in Paths, allow_download \in BOOLEAN,
     net \in NetOutcomes, disk \in DiskOutcomes :
    LET done == ensure_pdf(fs, source_url, destination, allow_download, net, disk)
    IN /\ input' = [source_url |-> source_url, destination |-> destination,
                    allow_download |-> allow_download, net |-> net, disk |-> disk,
                    fs |-> fs]
       /\ out' = [ensure_pdf |-> [exc |-> done.exc, val |-> done.val]]
       /\ fs' = done.fs
       /\ UNCHANGED <<db, pc>>

NextFetch == CallEnsurePdf
SpecFetch == InitFetch /\ [][NextFetch]_vars

\* ------------------------------------------ specification of save_exams
ExamSubjects == { <<"F", "i", "s", "i", "c", "a">>, <<"F", "i", "s", "i", "c", "a", " ", "I">> }
ExamDates == { <<2025, 10, 1>>, <<2025, 2, 21>> }
ExamTypes == { <<"O", "r", "d", "i", "n", "a", "r", "i", "o">>, <<"F", "u", "o", "r", "i", " ", "C", "o", "r", "s", "o">> }
Exams == {ExamRecord(m, d, t) : m \in ExamSubjects, d \in ExamDates, t \in ExamTypes}
\* The databases a run may find at db_path.
InitialDatabases ==
  { [exists |-> FALSE, rows |-> <<>>],
    [exists |-> TRUE, rows |-> <<>>],
    [exists |-> TRUE,
     rows |-> << row_of(ExamRecord(<<"F", "i", "s", "i", "c", "a">>, <<2025, 10, 1>>, <<"O", "r", "d", "i", "n", "a", "r", "i", "o">>)) >>],
    [exists |-> TRUE,
     rows |-> << row_of(ExamRecord(<<"F", "i", "s", "i", "c", "a", " ", "I">>, <<2025, 2, 21>>, <<"F", "u", "o", "r", "i", " ", "C", "o", "r", "s", "o">>)),
                 row_of(ExamRecord(<<"F", "i", "s", "i", "c", "a">>, <<2025, 10, 1>>, <<"O", "r", "d", "i", "n", "a", "r", "i", "o">>)) >>] }

InitSave ==
  /\ input \in [exams : SeqsUpTo(Exams, MaxExams), db : InitialDatabases]
  /\ out = [save_exams |-> NotCalled]
  /\ fs = <<>>
  /\ db = input.db
  /\ pc = "idle"

CallSaveExams ==
  /\ out.save_exams = NotCalled
  /\ LET done == save_exams(db, input.exams)
     IN /\ out' = [save_exams |-> [exc |-> done.exc, val |-> done.val,
                                   unique |-> done.unique, inserted |-> done.inserted]]
        /\ db' = done.db
  /\ UNCHANGED <<input, fs, pc>>

NextSave == CallSaveExams
SpecSave == InitSave /\ [][NextSave]_vars

\* -------------------- specification of the repository and the pipeline
StoreExams ==
  { ExamRecord(<<"F", "i", "s", "i", "c", "a">>, <<2025, 10, 1>>, <<"O", "r", "d", "i", "n", "a", "r", "i", "o">>),
    ExamRecord(<<"F", "i", "s", "i", "c", "a", " ", "I">>, <<2025, 2, 21>>, <<"F", "u", "o", "r", "i", " ", "C", "o", "r", "s", "o">>) }

\* out.last is the result of the last call that ended, out.init_schema the
\* result of the last init_schema.
NoCall == [call |-> "none", exc |-> "", val |-> 0, inserted |-> 0]

InitStore ==
  /\ input = [call |-> "none"]
  /\ out = [init_schema |-> NotCalled, last |-> NoCall]
  /\ fs \in InitialFiles
  /\ db \in InitialDatabases
  /\ pc = "idle"

\* input keeps the arguments of the last call and the database it started from.
StoreInitSchema ==
  /\ pc = "idle"
  /\ \E clear_existing \in BOOLEAN :
       LET done == init_schema(db, clear_existing)
       IN /\ input' = [call |-> "init_schema", clear_existing |-> clear_existing, db |-> db]
          /\ out' = [init_schema |-> [exc |-> done.exc, val |-> <<>>],
                     last |-> [call |-> "init_schema", exc |-> done.exc, val |-> 0,
                               inserted |-> 0]]
          /\ db' = done.db
  /\ UNCHANGED <<fs, pc>>

StoreSaveExams ==
  /\ pc = "idle"
  /\ \E exams \in SeqsUpTo(StoreExams, MaxBatch) :
       LET done == save_exams(db, exams)
       IN /\ input' = [call |-> "save_exams", exams |-> exams, db |-> db]
          /\ out' = [out EXCEPT !.last = [call |-> "save_exams", exc |-> done.exc,
                                           val |-> done.val, inserted |-> done.inserted]]
          /\ db' = done.db
  /\ UNCHANGED <<fs, pc>>

RunStart ==
  /\ pc = "idle"
  /\ \E allow_download \in BOOLEAN, reset_db \in BOOLEAN :
       input' = [call |-> "run", allow_download |-> allow_download, reset_db |-> reset_db,
                 db |-> db]
  /\ out' = [out EXCEPT !.last = NoCall]
  /\ pc' = "regolari_pdf"
  /\ UNCHANGED <<fs, db>>

RunFailed(exc) ==
  [out EXCEPT !.last = [call |-> "run", exc |-> exc, val |-> 0, inserted |-> 0]]

\* RunEnsureRegolari of a run that empties the table (DELETE FROM appelli) for
\* reset_db before it fetches the first document.
RunEnsureRegolari_after_reset ==
  /\ pc = "regolari_pdf"
  /\ \E net \in NetOutcomes, disk \in DiskOutcomes :
       LET done == ensure_pdf(fs, REGOLARI_URL, REGOLARI_PDF, input.allow_download, net, disk)
       IN /\ fs' = done.fs
          /\ pc' = IF done.exc = "" THEN "fuori_corso_pdf" ELSE "idle"
          /\ out' = IF done.exc = "" THEN out ELSE RunFailed(done.exc)
  /\ db' = IF input.reset_db /\ db.exists THEN [db EXCEPT !.rows = <<>>] ELSE db
  /\ UNCHANGED input

RunEnsureRegolari ==
  /\ pc = "regolari_pdf"
  /\ \E net \in NetOutcomes, disk \in DiskOutcomes :
       LET done == ensure_pdf(fs, REGOLARI_URL, REGOLARI_PDF, input.allow_download, net, disk)
       IN /\ fs' = done.fs
          /\ pc' = IF done.exc = "" THEN "fuori_corso_pdf" ELSE "idle"
          /\ out' = IF done.exc = "" THEN out ELSE RunFailed(done.exc)
  /\ UNCHANGED <<input, db>>

RunEnsureFuoriCorso ==
  /\ pc = "fuori_corso_pdf"
  /\ \E net \in NetOutcomes, disk \in DiskOutcomes :
       LET done == ensure_pdf(fs, FUORI_CORSO_URL, FUORI_CORSO_PDF, input.allow_download, net, disk)
       IN /\ fs' = done.fs
          /\ pc' = IF done.exc = "" THEN "parse" ELSE "idle"
          /\ out' = IF done.exc = "" THEN out ELSE RunFailed(done.exc)
  /\ UNCHANGED <<input, db>>

RunParseAndSave ==
  /\ pc = "parse"
  /\ \E regolari \in {pdf_at(REGOLARI_PDF, fs[REGOLARI_PDF])},
        fuori_corso \in {pdf_at(FUORI_CORSO_PDF, fs[FUORI_CORSO_PDF])} :
     \E regular_exams \in {parse_regular(regolari.pages)},
        out_of_course_exams \in {parse_out_of_course(fuori_corso.pages)} :
     \E done \in {run_parse_and_save(regolari, regular_exams, fuori_corso,
                                     out_of_course_exams, db, input.reset_db)} :
        /\ out' = [init_schema |-> IF done.schema = "not called" THEN out.init_schema
                                   ELSE [exc |-> done.schema, val |-> <<>>],
                  last |-> [call |-> "run", exc |-> done.exc, val |-> done.val,
                            inserted |-> done.inserted]]
        /\ db' = done.db
  /\ pc' = "idle"
  /\ UNCHANGED <<input, fs>>

NextStore ==
  \/ StoreInitSchema
  \/ StoreSaveExams
  \/ RunStart
  \/ RunEnsureRegolari
  \/ RunEnsureFuoriCorso
  \/ RunParseAndSave
SpecStore == InitStore /\ [][NextStore]_vars

\* ------------------------------------------------- claims: date functions
\* The lengths n >= 1 such that the n characters of s from index i on are all
\* of class C.
Runs(s, i, C) == {n \in 1..(Len(s) - i + 1) : \A k \in i..(i + n - 1) : s[k] \in C}
\* The value of a digit string of at most 4 significant digits.
RECURSIVE SmallValue(_)
SmallValue(ds) ==
  IF ds = <<>> THEN 0 ELSE 10 * SmallValue(SubSeq(ds, 1, Len(ds) - 1)) + DigitValue(ds[Len(ds)])
ValidDate(year, month, day) ==
  year \in 1..9999 /\ month \in 1..12 /\ day \in 1..days_in_month(year, month)
\* The elements of a finite set of integers in ascending order.
RECURSIVE Ascending(_)
Ascending(S) == IF S = {} THEN <<>> ELSE <<SetMin(S)>> \o Ascending(S \ {SetMin(S)})

\* The maximal digit runs of s as <<first, last>> index pairs.
MaximalRuns(s) ==
  { <<a, b>> \in (1..Len(s)) \X (1..Len(s)) :
      /\ a <= b
      /\ \A k \in a..b : s[k] \in DigitClass
      /\ (a = 1 \/ s[a - 1] \notin DigitClass)
      /\ (b = Len(s) \/ s[b + 1] \notin DigitClass) }
\* The day a digit run denotes, when it denotes a day of the month at all: after
\* its leading zeros at most two digits remain, and they form a day of the month.
RunDay(s, r) ==
  LET nz == {k \in r[1]..r[2] : s[k] # "0"}
      sig == IF nz = {} THEN <<>> ELSE SubSeq(s, SetMin(nz), r[2])
  IN IF Len(sig) \in 1..2 THEN SmallValue(sig) ELSE 0
ValidRunStarts(s, month, year) ==
  {r[1] : r \in {q \in MaximalRuns(s) : ValidDate(year, month, RunDay(s, q))}}
RunAt(s, a) == CHOOSE r \in MaximalRuns(s) : r[1] = a
ExpectedDayList(s, month, year) ==
  LET starts == Ascending(ValidRunStarts(s, month, year))
  IN [k \in 1..Len(starts) |-> <<year, month, RunDay(s, RunAt(s, starts[k]))>>]

\* C3: for every text, month and year parse_day_list returns, in the
\* left-to-right order of the maximal digit runs, exactly the dates of the runs
\* that form a valid calendar date; every other run (0, a day past the month's
\* length, an arbitrarily long digit run) is skipped without raising.
C3_DayListSkipsInvalidRuns ==
  out.parse_day_list # NotCalled =>
    /\ out.parse_day_list.exc = ""
    /\ out.parse_day_list.val = ExpectedDayList(input.text, input.month, input.year)

\* The occurrences of <1-2 digits> <spaces> <letters> <spaces> <4 digits> in s,
\* each as <<start, digits, spaces, letters, spaces>>.
Occurrences(s) ==
  UNION { UNION { UNION { UNION {
    { <<i, nd, w1, nl, w2>> :
        w2 \in {w \in Runs(s, i + nd + w1 + nl, SpaceClass) :
                  4 \in Runs(s, i + nd + w1 + nl + w, DigitClass)} } :
    nl \in Runs(s, i + nd + w1, LetterClass) } :
    w1 \in Runs(s, i + nd, SpaceClass) } :
    nd \in Runs(s, i, DigitClass) \cap {1, 2} } :
    i \in 1..Len(s) }
FirstOccurrences(s) == {o \in Occurrences(s) : \A p \in Occurrences(s) : o[1] <= p[1]}
\* The twelve three-letter prefixes, the month number being the index.
PrefixTable ==
  << <<"G", "E", "N">>, <<"F", "E", "B">>, <<"M", "A", "R">>, <<"A", "P", "R">>, <<"M", "A", "G">>, <<"G", "I", "U">>,
     <<"L", "U", "G">>, <<"A", "G", "O">>, <<"S", "E", "T">>, <<"O", "T", "T">>, <<"N", "O", "V">>, <<"D", "I", "C">> >>
SameLetter(a, b) ==
  \/ a = b
  \/ \E k \in 1..26 : {a, b} = {LowerLetters[k], UpperLetters[k]}
\* The months whose prefix is the first three letters of token, whatever the case.
PrefixMonths(token) ==
  {m \in 1..12 : Len(token) >= 3 /\ \A k \in 1..3 : SameLetter(token[k], PrefixTable[m][k])}
OccurrenceDate(s, o) ==
  LET day == SmallValue(SubSeq(s, o[1], o[1] + o[2] - 1))
      token == SubSeq(s, o[1] + o[2] + o[3], o[1] + o[2] + o[3] + o[4] - 1)
      y0 == o[1] + o[2] + o[3] + o[4] + o[5]
      year == SmallValue(SubSeq(s, y0, y0 + 3))
      months == PrefixMonths(token)
  IN IF months = {} THEN None
     ELSE LET month == CHOOSE m \in months : TRUE
          IN IF ValidDate(year, month, day) THEN <<year, month, day>> ELSE None

\* C4: parse_full_date resolves the month of the first
\* '<1-2 digits> <letters> <4 digits>' occurrence by the first three letters of
\* the month token, whatever their case, against the 12-entry prefix table; it
\* returns None when there is no occurrence, when the prefix is not in the
\* table, or when day/month/year is no calendar date.
C4_FullDateByPrefix ==
  out.parse_full_date # NotCalled =>
    /\ out.parse_full_date.exc = ""
    /\ IF Occurrences(input.text) = {}
       THEN out.parse_full_date.val = None
       ELSE \A o \in FirstOccurrences(input.text) :
              out.parse_full_date.val = OccurrenceDate(input.text, o)
\* A full lower-case month name resolved to the date its abbreviation gives.
C4_Witness ==
  /\ input.text = <<"3", "0", " ", "o", "t", "t", "o", "b", "r", "e", " ", "2", "0", "2", "5">>
  /\ out.parse_full_date = [exc |-> "", val |-> <<2025, 10, 30>>]

\* ---------------------------------------------------------- claims: parsers
RECURSIVE Flat(_)
\* The concatenation of a sequence of sequences.
Flat(ss) == IF ss = <<>> THEN <<>> ELSE Head(ss) \o Flat(Tail(ss))
\* The tables of a document in page and table order.
TablesOf(pdf) == Flat(pdf)
Called(f) == out[f] # NotCalled

\* The header cells of a table after line-break collapsing and trimming, in
\* upper case.
NormalizedHeader(table) ==
  {upper(strip(replace_newline(str(table[1][i])))) : i \in 1..Len(table[1])}
HeaderContainsToken(table) ==
  table # <<>> /\ table[1] # <<>>
  /\ \E c \in NormalizedHeader(table) : contains(<<"I", "N", "S", "E", "G", "N", "A", "M", "E", "N", "T", "O">>, c)
OutOfCourseRecords(table) == out_of_course_rows(table, 2, <<>>)

\* C5: a non-empty table is classified out-of-course, and its body
\* rows are processed by parse_out_of_course, whenever a header cell, after
\* line-break collapsing and trimming, case-insensitively equals or contains
\* INSEGNAMENTO, whatever the position of the cell.
C5_ContainsInsegnamento ==
  Called("parse_out_of_course") =>
    out.parse_out_of_course.val =
      Flat([t \in 1..Len(TablesOf(input.pdf)) |->
              IF HeaderContainsToken(TablesOf(input.pdf)[t])
              THEN OutOfCourseRecords(TablesOf(input.pdf)[t]) ELSE <<>>])

\* C6: at most one of the two extractors consumes a table: a document of one
\* table never yields both Regular and OutOfCourse records.
C6_OneExtractorPerTable ==
  (Called("parse_regular") /\ Called("parse_out_of_course") /\ Len(TablesOf(input.pdf)) = 1) =>
    ~(out.parse_regular.val # <<>> /\ out.parse_out_of_course.val # <<>>)

\* The day list of a cell: the dates of its valid runs ("valid"), or what
\* parse_day_list returned for it ("returned").
DayList(which, text, month, year) ==
  IF which = "valid" THEN ExpectedDayList(text, month, year)
  ELSE parse_day_list(text, month, year).val
\* The records of the regular layout, every cell read by DayList(which, ...).
RegularCell(which, row, column) ==
  IF column[1] > Len(row) \/ falsy(row[column[1]]) THEN <<>>
  ELSE LET days == DayList(which, replace_newline(str(row[column[1]])), column[2], column[3])
       IN [i \in 1..Len(days) |-> ExamRecord(materia_of(row), days[i], <<"O", "r", "d", "i", "n", "a", "r", "i", "o">>)]
KeptRegularRow(row) ==
  /\ row # <<>> /\ ~falsy(row[1])
  /\ materia_of(row) # <<>>
  /\ \A word \in {<<"A", "U", "L", "A">>, <<"P", "R", "I", "M", "O", " ", "A", "N", "N", "O">>, <<"S", "E", "C", "O", "N", "D", "O", " ", "A", "N", "N", "O">>} : ~contains(word, upper(materia_of(row)))
RegularRow(which, row, columns) ==
  IF ~KeptRegularRow(row) THEN <<>>
  ELSE Flat([k \in 1..Len(columns) |-> RegularCell(which, row, columns[k])])
RegularTable(which, table) ==
  IF regular_skips(table) THEN <<>>
  ELSE Flat([r \in 1..(Len(table) - 1) |->
               RegularRow(which, table[r + 1], month_columns(regular_header(table)))])
RegularDocument(which, pdf) ==
  Flat([t \in 1..Len(TablesOf(pdf)) |-> RegularTable(which, TablesOf(pdf)[t])])

\* C7: a malformed fragment in one cell never aborts extraction: both
\* extractors return, in page, table, row and cell order, the records of every
\* valid fragment of the document.
C7_MalformedFragmentsSkipped ==
  /\ Called("parse_regular") =>
       /\ out.parse_regular.exc = ""
       /\ out.parse_regular.val = RegularDocument("valid", input.pdf)
  /\ Called("parse_out_of_course") =>
       /\ out.parse_out_of_course.exc = ""
       /\ out.parse_out_of_course.val =
            Flat([t \in 1..Len(TablesOf(input.pdf)) |->
                    IF out_of_course_skips(TablesOf(input.pdf)[t]) THEN <<>>
                    ELSE OutOfCourseRecords(TablesOf(input.pdf)[t])])

\* C10: parse_regular emits exactly one Regular record per date returned by
\* parse_day_list for each pair of a kept body row and a column of the
\* MonthColumnMap present in the row, with that column's (month, year); an
\* unmapped column and a row whose subject is empty or holds AULA, PRIMO ANNO or
\* SECONDO ANNO contribute no record.
C10_OneRecordPerReturnedDate ==
  Called("parse_regular") =>
    out.parse_regular.val = RegularDocument("returned", input.pdf)

\* ------------------------------------------------------ claims: PdfFetcher
\* C8: ensure_pdf attempts the download, falls back, or fails: a download that
\* was allowed and succeeded leaves the downloaded content at the returned
\* destination; a download attempt that failed for any reason returns the
\* destination with the local copy unchanged when there is one, and fails when
\* there is none; no path is returned at which no document exists.
C8_AttemptRemoteFallBackFail ==
  Called("ensure_pdf") =>
    LET local == input.fs[input.destination]
        downloaded == input.allow_download /\ input.net = "200" /\ input.disk = "ok"
        failed == input.allow_download /\ ~downloaded
    IN /\ downloaded =>
            /\ out.ensure_pdf = [exc |-> "", val |-> input.destination]
            /\ fs[input.destination] = input.source_url
       /\ (failed /\ local # "absent") =>
            /\ out.ensure_pdf = [exc |-> "", val |-> input.destination]
            /\ fs = input.fs
       /\ (failed /\ local = "absent") => out.ensure_pdf.exc # ""
       /\ out.ensure_pdf.exc = "" => fs[out.ensure_pdf.val] \notin {"absent", "truncated"}

\* -------------------------------------------------- claims: ExamRepository
\* The (subject, date, recordType) triples of a list of exams.
TriplesOf(exams) == {<<exams[i].materia, exams[i].data_esame, exams[i].tipo>> : i \in 1..Len(exams)}
\* The row of a triple: its date in ISO form.
RowOfTriple(t) == <<t[1], isoformat(t[2]), t[3]>>
DateBefore(a, b) ==
  \/ a[1] < b[1]
  \/ a[1] = b[1] /\ a[2] < b[2]
  \/ a[1] = b[1] /\ a[2] = b[2] /\ a[3] < b[3]
\* Ascending order of (date, subject, recordType).
TripleBefore(a, b) ==
  \/ DateBefore(a[2], b[2])
  \/ a[2] = b[2] /\ str_less(a[1], b[1])
  \/ a[2] = b[2] /\ a[1] = b[1] /\ str_less(a[3], b[3])

\* C1: of a list of N exams with K distinct (subject, isoDate, recordType)
\* triples, save_exams hands the store exactly K rows, every distinct triple of
\* the list exactly once, in ascending order of (isoDate, subject, recordType).
C1_HandsDistinctTriplesSorted ==
  Called("save_exams") =>
    LET triples == TriplesOf(input.exams)
        unique == out.save_exams.unique
    IN /\ Len(unique) = Cardinality(triples)
       /\ \A t \in triples :
            Cardinality({i \in 1..Len(unique) : unique[i] = RowOfTriple(t)}) = 1
       /\ \A i \in 1..Len(unique), j \in 1..Len(unique) :
            i < j => \E a \in triples, b \in triples :
                       /\ unique[i] = RowOfTriple(a)
                       /\ unique[j] = RowOfTriple(b)
                       /\ TripleBefore(a, b)

\* Three exams, the first and the last the same triple and later than the
\* second: two rows are handed over, the earlier one first.
C1_Witness ==
  /\ Called("save_exams")
  /\ Len(input.exams) = 3
  /\ input.exams[1] = input.exams[3]
  /\ input.exams[1].materia = <<"F", "i", "s", "i", "c", "a">>
  /\ input.exams[2].materia = <<"F", "i", "s", "i", "c", "a", " ", "I">>
  /\ DateBefore(input.exams[2].data_esame, input.exams[1].data_esame)
  /\ out.save_exams.unique =
       << row_of(input.exams[2]), row_of(input.exams[1]) >>

\* The triples of the stored rows.
StoredRows(database) == Range(database.rows)
\* C2: once init_schema was called, the store keeps every (subject, date,
\* type) at most once and save_exams inserts what is absent: the call succeeds,
\* the stored rows are those stored before together with the rows of the
\* exams, no two stored rows are the same triple, and a call with records that
\* are all stored already leaves the stored rows as they were.
C2_InsertIfAbsent ==
  (out.init_schema # NotCalled /\ out.last.call = "save_exams") =>
    LET rows == {RowOfTriple(t) : t \in TriplesOf(input.exams)}
    IN /\ out.last.exc = ""
       /\ StoredRows(db) = StoredRows(input.db) \cup rows
       /\ \A i \in 1..Len(db.rows), j \in 1..Len(db.rows) : db.rows[i] = db.rows[j] => i = j
       /\ rows \subseteq StoredRows(input.db) => db.rows = input.db.rows

\* ---------------------------------------------- claims: ExamImportPipeline
\* C9: the count run returns, which is the count save_exams hands back to it,
\* is the number of rows the call inserted into the store, whatever rows the
\* store held before.
C9_ReturnsRowsInserted ==
  (out.last.call \in {"run", "save_exams"} /\ out.last.exc = "") =>
    out.last.val = out.last.inserted

\* The exceptions with which ensure_pdf leaves run: the document is neither
\* fetched nor there.
FetchFailures == {"FileNotFoundError", "RuntimeError", "OSError"}
\* C11: a run that fails because ensure_pdf fails for the regular or for the
\* out-of-course document leaves the store exactly as it was when the run
\* began, also when reset_db is true; and as long as the run is fetching or has
\* not parsed yet, the store is as it was: the schema reset and the save come
\* after both documents were fetched and parsed.
C11_FetchFailureLeavesStore ==
  /\ (out.last.call = "run" /\ out.last.exc \in FetchFailures) => db = input.db
  /\ pc \in {"regolari_pdf", "fuori_corso_pdf", "parse"} => db = input.db

\* A run with reset_db on a store holding a row downloads the regular
\* document, then fails on the out-of-course document, which cannot be
\* downloaded and is not there: the row is still stored.
C11_Witness ==
  /\ pc = "idle"
  /\ out.last.call = "run"
  /\ out.last.exc = "RuntimeError"
  /\ input.reset_db
  /\ fs[REGOLARI_PDF] = REGOLARI_URL
  /\ fs[FUORI_CORSO_PDF] = "absent"
  /\ input.db.rows # <<>>
  /\ db = input.db

====
